---- MODULE Spec2Model ----
(***************************************************************************)
(* Model of src/mypy/main.py: the driver that runs mypy with the two       *)
(* site-packages lookup functions of the `site` module replaced by         *)
(* manifest-driven ones, and restores them afterwards.                     *)
(*                                                                         *)
(* A string is a sequence of one-token strings ("/", "a", "\n", ...), a    *)
(* list of strings is a sequence of such sequences.  The text written to   *)
(* a stream is the sequence of the tokens written to it.                   *)
(***************************************************************************)
EXTENDS Integers, Sequences, FiniteSets, TLC

\* ---------------------------------------------------------------- bounds
\* longest manifest file content, in tokens
MaxManifestLen == 3
\* most calls of restore_original_sitepackages from outside the script
MaxExtraRestores == 1
\* most calls of monkey_patch_sitepackages from outside the script
MaxExtraInstalls == 1
\* most tokens mypy writes to its streams in one invocation
MaxDiag == 1
\* largest status code mypy passes to sys.exit
MaxCode == 2

\* ------------------------------------------------------- string helpers
SEP == "/"
NL == "\n"

\* all sequences over S of length at most n
RECURSIVE SeqsUpTo(_, _)
SeqsUpTo(S, n) ==
    IF n = 0 THEN {<<>>}
    ELSE LET shorter == SeqsUpTo(S, n - 1)
         IN  shorter \cup {Append(s, x) : s \in {t \in shorter : Len(t) = n - 1}, x \in S}

\* str.split(sep): the pieces between the occurrences of sep, empty ones kept
RECURSIVE SplitFrom(_, _, _)
SplitFrom(s, sep, cur) ==
    IF s = <<>> THEN <<cur>>
    ELSE IF Head(s) = sep THEN <<cur>> \o SplitFrom(Tail(s), sep, <<>>)
    ELSE SplitFrom(Tail(s), sep, Append(cur, Head(s)))

Split(s, sep) == SplitFrom(s, sep, <<>>)

\* posixpath.join(a, b)
Join(a, b) ==
    IF b # <<>> /\ Head(b) = SEP THEN b
    ELSE IF a = <<>> \/ a[Len(a)] = SEP THEN a \o b
    ELSE a \o <<SEP>> \o b

\* the non-empty components of a path, as the kernel resolves it
Components(p) == SelectSeq(Split(p, SEP), LAMBDA c : c # <<>>)

\* print(*values, file=f): the values separated by " ", then a newline
RECURSIVE Spaced(_)
Spaced(values) ==
    IF values = <<>> THEN <<>>
    ELSE IF Len(values) = 1 THEN Head(values)
    ELSE Head(values) \o <<" ">> \o Spaced(Tail(values))

PrintLine(values) == Spaced(values) \o <<NL>>

\* ------------------------------------------------------------ the inputs
\* os.getcwd()
Cwd == <<SEP, "w">>
\* a value of the environment variable TEST_SRCDIR
TestSrcdir == <<SEP, "r">>
\* the value given to --external_deps
ManifestPath == <<"m">>
ManifestAlphabet == {"a", SEP, NL}

\* the directories that may exist besides / and the working directory
Dirs ==
    { << <<"r">> >>, << <<"r">>, <<"a">> >>,
      << <<"w">>, <<"external">> >>, << <<"w">>, <<"external">>, <<"a">> >> }

ParentClosed(S) ==
    \A d \in S : Len(d) > 1 =>
        LET parent == SubSeq(d, 1, Len(d) - 1)
        IN  parent \in S \/ parent = Components(Cwd)

FileSystems == {S \in SUBSET Dirs : ParentClosed(S)}

\* what site.getsitepackages() of the interpreter may return
OriginalSitePackages == {<<>>, << <<SEP, "r", SEP, "a">> >>}
\* what site.getusersitepackages() of the interpreter may return
OriginalUserSitePackages == {<<>>, <<SEP, "u">>}

VARIABLES
    argv_external_deps,   \* [given, value]: the --external_deps argument
    environ_TEST_SRCDIR,  \* [present, value]: os.environ.get('TEST_SRCDIR')
    manifest_file,        \* [readable, content]: the file at the manifest path
    fs,                   \* the existing directories
    site_results,         \* [primary, user]: results of the interpreter's own functions
    original_getsitepackages,      \* line 10
    original_getusersitepackages,  \* line 11
    site_getsitepackages,          \* site.getsitepackages
    site_getusersitepackages,      \* site.getusersitepackages
    runfiles_root,
    external_deps_manifest,
    site_packages,
    checked,              \* how many entries of site_packages passed the assert
    sio,                  \* [stdout, stderr]: the two StringIO objects
    exit_status,          \* [set, code]
    pending,              \* [exc, code]: the exception in flight
    real_stdout,          \* sys.stdout
    real_stderr,          \* sys.stderr
    process,              \* [state, code]: running / exited(code) / aborted
    pc,
    main_wrote,           \* history: the tokens mypy wrote, in order
    main_outcome,         \* history: [kind, code]: how the call of main ended
    extra_restores,       \* history: calls of restore_original_sitepackages by other callers
    events                \* history of the steps taken

inputs == <<argv_external_deps, environ_TEST_SRCDIR, manifest_file, fs, site_results>>
originals == <<original_getsitepackages, original_getusersitepackages>>
policy == <<site_getsitepackages, site_getusersitepackages>>
locals == <<runfiles_root, external_deps_manifest, site_packages, checked>>
streams == <<real_stdout, real_stderr>>
history == <<main_wrote, main_outcome, extra_restores>>
vars == <<inputs, originals, policy, locals, sio, exit_status, pending, streams,
          process, pc, history, events>>

\* the functions found in the `site` module at import
SiteGetsitepackages == [fn |-> "site.getsitepackages", site_packages |-> <<>>]
SiteGetusersitepackages == [fn |-> "site.getusersitepackages"]

Running == [state |-> "running", code |-> 0]
Exited(code) == [state |-> "exited", code |-> code]
Aborted(exc) == [state |-> exc, code |-> 1]
NoStatus == [set |-> FALSE, code |-> 0]
NoException == [exc |-> "none", code |-> 0]

Init ==
    /\ argv_external_deps \in {[given |-> FALSE, value |-> <<>>],
                               [given |-> TRUE, value |-> ManifestPath]}
    /\ environ_TEST_SRCDIR \in {[present |-> FALSE, value |-> <<>>],
                                [present |-> TRUE, value |-> <<>>],
                                [present |-> TRUE, value |-> TestSrcdir]}
    /\ manifest_file \in
          {[readable |-> FALSE, content |-> <<>>]} \cup
          {[readable |-> TRUE, content |-> c] : c \in SeqsUpTo(ManifestAlphabet, MaxManifestLen)}
    /\ fs \in FileSystems
    /\ site_results \in [primary : OriginalSitePackages, user : OriginalUserSitePackages]
    /\ original_getsitepackages = SiteGetsitepackages
    /\ original_getusersitepackages = SiteGetusersitepackages
    /\ site_getsitepackages = SiteGetsitepackages
    /\ site_getusersitepackages = SiteGetusersitepackages
    /\ runfiles_root = <<>>
    /\ external_deps_manifest = <<>>
    /\ site_packages = <<>>
    /\ checked = 0
    /\ sio = [stdout |-> <<>>, stderr |-> <<>>]
    /\ exit_status = NoStatus
    /\ pending = NoException
    /\ real_stdout = <<>>
    /\ real_stderr = <<>>
    /\ process = Running
    /\ pc = "parse_args"
    /\ main_wrote = <<>>
    /\ extra_restores = 0
    /\ main_outcome = [kind |-> "none", code |-> 0]
    /\ events = <<>>

\* ------------------------------------------------- the lookup functions
RECURSIVE CallGetsitepackages(_)
RECURSIVE BazelOverrideGetsitepackages(_)

\* variant of __bazel_override_getsitepackages__: the interpreter's own directories first
BazelOverrideOriginalFirst(closure) ==
    CallGetsitepackages(original_getsitepackages) \o closure

\* __bazel_override_getsitepackages__, closed over site_packages
BazelOverrideGetsitepackages(closure) ==
    closure \o CallGetsitepackages(original_getsitepackages)

\* variant of __bazel_override_getusersitepackages__: the user directory passed through
BazelOverrideUserPassThrough == site_results.user

\* __bazel_override_getusersitepackages__
BazelOverrideGetusersitepackages == <<>>

\* calling a function object stored in site.getsitepackages
CallGetsitepackages(f) ==
    IF f.fn = "site.getsitepackages" THEN site_results.primary
    ELSE BazelOverrideGetsitepackages(f.site_packages)

\* calling a function object stored in site.getusersitepackages
CallGetusersitepackages(f) ==
    IF f.fn = "site.getusersitepackages" THEN site_results.user
    ELSE BazelOverrideGetusersitepackages

\* what a caller of the two site functions obtains in the current state
PrimaryResult == CallGetsitepackages(site_getsitepackages)
SecondaryResult == CallGetusersitepackages(site_getusersitepackages)

\* os.path.exists(p)
Exists(p) ==
    /\ p # <<>>
    /\ LET abs == IF Head(p) = SEP THEN Components(p)
                  ELSE Components(Cwd) \o Components(p)
       IN  abs = <<>> \/ abs = Components(Cwd) \/ abs \in fs

\* an exception leaves the script uncaught: traceback on sys.stderr, status 1
Uncaught(exc) ==
    /\ real_stderr' = real_stderr \o <<"Traceback", exc, NL>>
    /\ process' = Aborted(exc)
    /\ pc' = "done"

\* ------------------------------------------------------------ the steps
\* parser.parse_known_args() with --external_deps required
ParseArgs ==
    /\ pc = "parse_args"
    /\ IF argv_external_deps.given
       THEN /\ pc' = "runfiles_root"
            /\ UNCHANGED <<streams, process, events>>
       ELSE /\ real_stderr' = real_stderr \o <<"usage", NL>>
            /\ process' = Exited(2)
            /\ pc' = "done"
            /\ events' = Append(events, "exit")
            /\ UNCHANGED real_stdout
    /\ UNCHANGED <<history, inputs, originals, policy, locals, sio, exit_status, pending>>

\* variant of RunfilesRoot: os.environ.get('TEST_SRCDIR', <the default>), which
\* takes the variable whenever it is set
RunfilesRootGetWithDefault ==
    /\ pc = "runfiles_root"
    /\ runfiles_root' =
          IF environ_TEST_SRCDIR.present
          THEN environ_TEST_SRCDIR.value
          ELSE Join(Cwd, <<"external">>)
    /\ pc' = "read_manifest"
    /\ UNCHANGED <<history, inputs, originals, policy, external_deps_manifest, site_packages,
                   checked, sio, exit_status, pending, streams, process, events>>

\* runfiles_root = os.environ.get('TEST_SRCDIR') or os.path.join(os.getcwd(), "external")
RunfilesRoot ==
    /\ pc = "runfiles_root"
    /\ runfiles_root' =
          IF environ_TEST_SRCDIR.present /\ environ_TEST_SRCDIR.value # <<>>
          THEN environ_TEST_SRCDIR.value
          ELSE Join(Cwd, <<"external">>)
    /\ pc' = "read_manifest"
    /\ UNCHANGED <<history, inputs, originals, policy, external_deps_manifest, site_packages,
                   checked, sio, exit_status, pending, streams, process, events>>

\* variant of ReadManifest: the empty lines of the manifest are left out
ReadManifestDropsBlank ==
    /\ pc = "read_manifest"
    /\ IF manifest_file.readable
       THEN /\ external_deps_manifest' =
                  SelectSeq(Split(manifest_file.content, NL), LAMBDA line : line # <<>>)
            /\ pc' = "resolve"
            /\ UNCHANGED <<streams, process, events>>
       ELSE /\ real_stdout' = real_stdout \o
                  PrintLine(<< <<"Unexpected error while reading dependency manifest file at '">>
                                 \o argv_external_deps.value \o <<"'">>,
                               <<"OSError">> >>)
            /\ process' = Exited(1)
            /\ pc' = "done"
            /\ events' = Append(events, "exit")
            /\ UNCHANGED <<external_deps_manifest, real_stderr>>
    /\ UNCHANGED <<history, inputs, originals, policy, runfiles_root, site_packages, checked,
                   sio, exit_status, pending>>

\* variant of ReadManifest: a manifest that cannot be read counts as an empty one
ReadManifestIgnoresFailure ==
    /\ pc = "read_manifest"
    /\ external_deps_manifest' =
          IF manifest_file.readable THEN Split(manifest_file.content, NL) ELSE << <<>> >>
    /\ pc' = "resolve"
    /\ UNCHANGED <<history, inputs, originals, policy, runfiles_root, site_packages,
                   checked, sio, exit_status, pending, streams, process, events>>

\* Path(external_deps_manifest_path).read_text().split("\n"), and its handler
ReadManifest ==
    /\ pc = "read_manifest"
    /\ IF manifest_file.readable
       THEN /\ external_deps_manifest' = Split(manifest_file.content, NL)
            /\ pc' = "resolve"
            /\ UNCHANGED <<streams, process, events>>
       ELSE /\ real_stdout' = real_stdout \o
                  PrintLine(<< <<"Unexpected error while reading dependency manifest file at '">>
                                 \o argv_external_deps.value \o <<"'">>,
                               <<"OSError">> >>)
            /\ process' = Exited(1)
            /\ pc' = "done"
            /\ events' = Append(events, "exit")
            /\ UNCHANGED <<external_deps_manifest, real_stderr>>
    /\ UNCHANGED <<history, inputs, originals, policy, runfiles_root, site_packages, checked,
                   sio, exit_status, pending>>

\* site_packages = [os.path.join(runfiles_root, p) for p in external_deps_manifest]
ResolvePaths ==
    /\ pc = "resolve"
    /\ site_packages' = [i \in 1..Len(external_deps_manifest) |->
                            Join(runfiles_root, external_deps_manifest[i])]
    /\ checked' = 0
    /\ pc' = "check_exists"
    /\ UNCHANGED <<history, inputs, originals, policy, runfiles_root, external_deps_manifest,
                   sio, exit_status, pending, streams, process, events>>

\* variant of CheckExists: an entry that does not exist is passed over
CheckExistsSkipsMissing ==
    /\ pc = "check_exists"
    /\ IF checked = Len(site_packages)
       THEN pc' = "install" /\ UNCHANGED checked
       ELSE checked' = checked + 1 /\ UNCHANGED pc
    /\ UNCHANGED <<history, inputs, originals, policy, runfiles_root,
                   external_deps_manifest, site_packages, sio, exit_status, pending,
                   streams, process, events>>

\* for site_package in site_packages: assert os.path.exists(site_package)
CheckExists ==
    /\ pc = "check_exists"
    /\ IF checked = Len(site_packages)
       THEN /\ pc' = "install"
            /\ UNCHANGED <<checked, streams, process>>
       ELSE IF Exists(site_packages[checked + 1])
       THEN /\ checked' = checked + 1
            /\ UNCHANGED <<pc, streams, process>>
       ELSE /\ Uncaught("AssertionError")
            /\ UNCHANGED <<checked, real_stdout>>
    /\ UNCHANGED <<history, inputs, originals, policy, runfiles_root, external_deps_manifest,
                   site_packages, sio, exit_status, pending, events>>

\* variant of the two assignments: the functions found in `site` are saved as
\* the originals at each installation
InstallFunctionsCapturing(closure) ==
    /\ original_getsitepackages' = site_getsitepackages
    /\ original_getusersitepackages' = site_getusersitepackages
    /\ site_getsitepackages' =
          [fn |-> "__bazel_override_getsitepackages__", site_packages |-> closure]
    /\ site_getusersitepackages' = [fn |-> "__bazel_override_getusersitepackages__"]

\* site.getsitepackages = __bazel_override_getsitepackages__ ; same for the user
\* one; the module-level originals are not assigned
InstallFunctions(closure) ==
    /\ site_getsitepackages' =
          [fn |-> "__bazel_override_getsitepackages__", site_packages |-> closure]
    /\ site_getusersitepackages' = [fn |-> "__bazel_override_getusersitepackages__"]
    /\ UNCHANGED originals

\* the last two statements of monkey_patch_sitepackages
InstallOverride ==
    /\ pc = "install"
    /\ InstallFunctions(site_packages)
    /\ events' = Append(events, "install")
    /\ pc' = "create_sinks"
    /\ UNCHANGED <<history, inputs, locals, sio, exit_status, pending, streams, process>>

\* variant of restore_original_sitepackages: exchanges the installed functions
\* with the saved ones, so that a call without an override installs one
RestoreExchanges ==
    IF site_getsitepackages = original_getsitepackages
    THEN /\ site_getsitepackages' =
               [fn |-> "__bazel_override_getsitepackages__", site_packages |-> site_packages]
         /\ site_getusersitepackages' = [fn |-> "__bazel_override_getusersitepackages__"]
    ELSE /\ site_getsitepackages' = original_getsitepackages
         /\ site_getusersitepackages' = original_getusersitepackages

\* restore_original_sitepackages()
RestoreOriginalSitepackages ==
    /\ site_getsitepackages' = original_getsitepackages
    /\ site_getusersitepackages' = original_getusersitepackages

\* variant of Finally: the restore call placed after the try statement, not in a
\* finally clause, so that an exception in flight passes it by
FinallyRestoreSkippedOnError ==
    /\ pc = "finally"
    /\ IF pending.exc = "none"
       THEN /\ RestoreOriginalSitepackages
            /\ events' = Append(events, "restore")
            /\ pc' = "sys_exit"
            /\ UNCHANGED <<streams, process>>
       ELSE /\ Uncaught(pending.exc)
            /\ UNCHANGED <<policy, events, real_stdout>>
    /\ UNCHANGED <<history, inputs, originals, locals, sio, exit_status, pending>>

\* variant of ExceptSystemExit: the status code of the SystemExit is not kept
ExceptSystemExitStatusOne ==
    /\ pc = "except"
    /\ exit_status' = [set |-> TRUE, code |-> 1]
    /\ pending' = NoException
    /\ pc' = "print_stdout"
    /\ UNCHANGED <<history, inputs, originals, policy, locals, sio, streams, process,
                   events>>

\* variant of PrintStderr: the StringIO that mypy never writes to is printed
PrintStderrWrongSink ==
    /\ pc = "print_stderr"
    /\ real_stderr' = real_stderr \o PrintLine(<<sio.stdout>>)
    /\ events' = Append(events, "stderr")
    /\ pc' = "finally"
    /\ UNCHANGED <<history, inputs, originals, policy, locals, sio, exit_status, pending,
                   real_stdout, process>>

\* stdout = StringIO() ; stderr = StringIO()
CreateSinks ==
    /\ pc = "create_sinks"
    /\ sio' = [stdout |-> <<>>, stderr |-> <<>>]
    /\ pc' = "call_main"
    /\ UNCHANGED <<history, inputs, originals, policy, locals, exit_status, pending, streams,
                   process, events>>

\* variant of the call of main: each stream of mypy gets a StringIO of its own
MainStreamArgSeparate(stream) == IF stream = "stdout" THEN "stdout" ELSE "stderr"

\* the StringIO that main(None, stderr, stderr, unknown) receives for each of its streams
MainStreamArg(stream) == IF stream = "stdout" THEN "stderr" ELSE "stderr"

\* try: main(None, stderr, stderr, unknown)
CallMain ==
    /\ pc = "call_main"
    /\ pc' = "in_main"
    /\ events' = Append(events, "invoke")
    /\ UNCHANGED <<history, inputs, originals, policy, locals, sio, exit_status, pending,
                   streams, process>>

\* variant of MainWrites: main was given sys.stdout and sys.stderr themselves
MainWritesToRealStream(stream) ==
    /\ pc = "in_main"
    /\ Len(main_wrote) < MaxDiag
    /\ IF stream = "stdout"
       THEN real_stdout' = Append(real_stdout, "report") /\ UNCHANGED real_stderr
       ELSE real_stderr' = Append(real_stderr, "error") /\ UNCHANGED real_stdout
    /\ main_wrote' = Append(main_wrote, IF stream = "stdout" THEN "report" ELSE "error")
    /\ UNCHANGED <<extra_restores, main_outcome, inputs, originals, policy, locals, sio,
                   exit_status, pending, process, pc, events>>

\* mypy writes a token to one of the two streams it was given
MainWrites(stream) ==
    /\ pc = "in_main"
    /\ Len(sio.stdout) + Len(sio.stderr) < MaxDiag
    /\ sio' = [sio EXCEPT ![MainStreamArg(stream)] =
                  Append(@, IF stream = "stdout" THEN "report" ELSE "error")]
    /\ main_wrote' = Append(main_wrote, IF stream = "stdout" THEN "report" ELSE "error")
    /\ UNCHANGED <<extra_restores, main_outcome, inputs, originals, policy, locals, exit_status, pending, streams,
                   process, pc, events>>

\* main returns
MainReturns ==
    /\ pc = "in_main"
    /\ pc' = "after_main"
    /\ main_outcome' = [kind |-> "returned", code |-> 0]
    /\ UNCHANGED <<extra_restores, main_wrote, inputs, originals, policy, locals, sio, exit_status, pending,
                   streams, process, events>>

\* main calls sys.exit(code)
MainSystemExit(code) ==
    /\ pc = "in_main"
    /\ pending' = [exc |-> "SystemExit", code |-> code]
    /\ pc' = "except"
    /\ main_outcome' = [kind |-> "SystemExit", code |-> code]
    /\ UNCHANGED <<extra_restores, main_wrote, inputs, originals, policy, locals, sio, exit_status, streams,
                   process, events>>

\* variant of MainRaises: the handler is a bare except clause, which takes any
\* exception for a failed check
MainRaisesCaught ==
    /\ pc = "in_main"
    /\ pending' = [exc |-> "SystemExit", code |-> 1]
    /\ pc' = "except"
    /\ main_outcome' = [kind |-> "raised", code |-> 0]
    /\ UNCHANGED <<extra_restores, main_wrote, inputs, originals, policy, locals, sio,
                   exit_status, streams, process, events>>

\* main raises anything that is not a SystemExit
MainRaises ==
    /\ pc = "in_main"
    /\ pending' = [exc |-> "Exception", code |-> 0]
    /\ pc' = "finally"
    /\ main_outcome' = [kind |-> "raised", code |-> 0]
    /\ UNCHANGED <<extra_restores, main_wrote, inputs, originals, policy, locals, sio, exit_status, streams,
                   process, events>>

\* variant of StatusZero: the try body restores as well, ahead of the finally clause
StatusZeroRestores ==
    /\ pc = "after_main"
    /\ exit_status' = [set |-> TRUE, code |-> 0]
    /\ RestoreOriginalSitepackages
    /\ events' = Append(events, "restore")
    /\ pc' = "finally"
    /\ UNCHANGED <<history, inputs, originals, locals, sio, pending, streams, process>>

\* exit_status = 0
StatusZero ==
    /\ pc = "after_main"
    /\ exit_status' = [set |-> TRUE, code |-> 0]
    /\ pc' = "finally"
    /\ UNCHANGED <<history, inputs, originals, policy, locals, sio, pending, streams, process, events>>

\* variant of ExceptSystemExit: the handler restores before it prints
ExceptSystemExitRestoresFirst ==
    /\ pc = "except"
    /\ exit_status' = [set |-> TRUE, code |-> pending.code]
    /\ pending' = NoException
    /\ RestoreOriginalSitepackages
    /\ events' = Append(events, "restore")
    /\ pc' = "print_stdout"
    /\ UNCHANGED <<history, inputs, originals, locals, sio, streams, process>>

\* except SystemExit as system_exit: exit_status = system_exit.code
ExceptSystemExit ==
    /\ pc = "except"
    /\ exit_status' = [set |-> TRUE, code |-> pending.code]
    /\ pending' = NoException
    /\ pc' = "print_stdout"
    /\ UNCHANGED <<history, inputs, originals, policy, locals, sio, streams, process, events>>

\* print(stdout.getvalue(), file=sys.stdout)
PrintStdout ==
    /\ pc = "print_stdout"
    /\ real_stdout' = real_stdout \o PrintLine(<<sio.stdout>>)
    /\ events' = Append(events, "stdout")
    /\ pc' = "print_stderr"
    /\ UNCHANGED <<history, inputs, originals, policy, locals, sio, exit_status, pending,
                   real_stderr, process>>

\* print(stderr.getvalue(), file=sys.stderr)
PrintStderr ==
    /\ pc = "print_stderr"
    /\ real_stderr' = real_stderr \o PrintLine(<<sio.stderr>>)
    /\ events' = Append(events, "stderr")
    /\ pc' = "finally"
    /\ UNCHANGED <<history, inputs, originals, policy, locals, sio, exit_status, pending,
                   real_stdout, process>>

\* finally: restore_original_sitepackages(), then the exception in flight goes on
Finally ==
    /\ pc = "finally"
    /\ RestoreOriginalSitepackages
    /\ events' = Append(events, "restore")
    /\ IF pending.exc = "none"
       THEN /\ pc' = "sys_exit"
            /\ UNCHANGED <<streams, process>>
       ELSE /\ Uncaught(pending.exc)
            /\ UNCHANGED real_stdout
    /\ UNCHANGED <<history, inputs, originals, locals, sio, exit_status, pending>>

\* sys.exit(exit_status)
SysExit ==
    /\ pc = "sys_exit"
    /\ process' = Exited(exit_status.code)
    /\ events' = Append(events, "exit")
    /\ pc' = "done"
    /\ UNCHANGED <<history, inputs, originals, policy, locals, sio, exit_status, pending,
                   streams>>

Next ==
    \/ ParseArgs
    \/ RunfilesRoot
    \/ ReadManifest
    \/ ResolvePaths
    \/ CheckExists
    \/ InstallOverride
    \/ CreateSinks
    \/ CallMain
    \/ \E stream \in {"stdout", "stderr"} : MainWrites(stream)
    \/ MainReturns
    \/ \E code \in 0..MaxCode : MainSystemExit(code)
    \/ MainRaises
    \/ StatusZero
    \/ ExceptSystemExit
    \/ PrintStdout
    \/ PrintStderr
    \/ Finally
    \/ SysExit

Spec == Init /\ [][Next]_vars

\* --------------------------------------- the functions called from outside
\* another caller in the process calls restore_original_sitepackages()
RestoreAgain ==
    /\ process.state = "running"
    /\ extra_restores < MaxExtraRestores
    /\ RestoreOriginalSitepackages
    /\ extra_restores' = extra_restores + 1
    /\ UNCHANGED <<main_wrote, main_outcome, inputs, originals, locals, sio,
                   exit_status, pending, streams, process, pc, events>>

NextCallers == Next \/ RestoreAgain

SpecCallers == Init /\ [][NextCallers]_vars

\* the number of occurrences of e in the history of steps
Count(e) == Cardinality({i \in 1..Len(events) : events[i] = e})

\* the positions of the script that are not inside its try statement
OutsideTry ==
    {"parse_args", "runfiles_root", "read_manifest", "resolve", "check_exists",
     "install", "create_sinks", "call_main", "sys_exit"}

\* another caller in the process calls monkey_patch_sitepackages(path, root),
\* the whole function, and does not catch what it raises
MonkeyPatchAgain(root) ==
    /\ process.state = "running"
    /\ pc \in OutsideTry
    /\ Count("install_again") < MaxExtraInstalls
    /\ LET manifest == Split(manifest_file.content, NL)
           packages == [i \in 1..Len(manifest) |-> Join(root, manifest[i])]
       IN  IF ~manifest_file.readable
           THEN /\ real_stdout' = real_stdout \o
                      PrintLine(<< <<"Unexpected error while reading dependency manifest file at '">>
                                     \o ManifestPath \o <<"'">>,
                                   <<"OSError">> >>)
                /\ process' = Exited(1)
                /\ pc' = "done"
                /\ events' = Append(events, "exit")
                /\ UNCHANGED <<originals, policy, real_stderr>>
           ELSE IF \E i \in 1..Len(packages) : ~Exists(packages[i])
           THEN /\ Uncaught("AssertionError")
                /\ UNCHANGED <<originals, policy, real_stdout, events>>
           ELSE /\ InstallFunctions(packages)
                /\ events' = Append(events, "install_again")
                /\ UNCHANGED <<streams, process, pc>>
    /\ UNCHANGED <<history, inputs, locals, sio, exit_status, pending>>

NextReentrant ==
    \/ Next
    \/ \E root \in {TestSrcdir, Join(Cwd, <<"external">>)} : MonkeyPatchAgain(root)

\* the script in an interpreter whose own two functions return directories
InitReentrant ==
    /\ Init
    /\ site_results.primary # <<>>
    /\ site_results.user # <<>>

SpecReentrant == InitReentrant /\ [][NextReentrant]_vars

\* ------------------------------------------------------------ the claims
Range(seq) == {seq[i] : i \in 1..Len(seq)}
Terminated == process.state # "running"
OverrideInstalled == site_getsitepackages.fn = "__bazel_override_getsitepackages__"
PolicyIsOriginal ==
    /\ site_getsitepackages = SiteGetsitepackages
    /\ site_getusersitepackages = SiteGetusersitepackages
    /\ PrimaryResult = site_results.primary
    /\ SecondaryResult = site_results.user
CheckerFailed == main_outcome.kind = "SystemExit" /\ main_outcome.code # 0
IsPrefix(a, b) == Len(a) <= Len(b) /\ SubSeq(b, 1, Len(a)) = a
Contains(text, part) ==
    \E i \in 0..(Len(text) - Len(part)) : SubSeq(text, i + 1, i + Len(part)) = part

\* C1: whenever the process has terminated (usage error, unreadable manifest,
\* missing path, main returned, main called sys.exit with any code, main raised),
\* both site functions are the ones captured at import and return what those
\* return; when main raised, the restore happened before the process aborted.
C1_PolicyOriginalAtTermination ==
    Terminated =>
        /\ PolicyIsOriginal
        /\ main_outcome.kind # "none" => "restore" \in Range(events)
        /\ main_outcome.kind = "raised" =>
              process.state = "Exception" /\ events[Len(events)] = "restore"

\* C1 witness: main raised after the override was installed over a non-empty
\* user site-packages result, and the process has aborted
C1_Witness ==
    /\ process.state = "Exception"
    /\ "install" \in Range(events)
    /\ site_results.user # <<>>
    /\ site_results.primary # <<>>

\* C2: whenever the recorded status code is zero, nothing has been written to
\* sys.stdout or sys.stderr
C2_SilentSuccess ==
    (exit_status.set /\ exit_status.code = 0) =>
        real_stdout = <<>> /\ real_stderr = <<>>

\* C3: when main called sys.exit with a non-zero code and the process has
\* terminated, everything mypy wrote to either of its streams is on sys.stderr
C3_FailureDiagnosticsOnStderr ==
    (Terminated /\ CheckerFailed) =>
        /\ IsPrefix(main_wrote, real_stderr)
        /\ IsPrefix(sio.stderr, real_stderr)
        /\ sio.stderr = main_wrote

\* C3 witness: a failed check that wrote a diagnostic has exited
C3_Witness ==
    /\ process.state = "exited"
    /\ CheckerFailed
    /\ main_wrote # <<>>

\* C4: once main has been called and has not raised, the process exits with the
\* code main passed to sys.exit, or with 0 when main returned; it is the
\* recorded exit_status
C4_ExitCodeIsCheckerStatus ==
    (Terminated /\ main_outcome.kind \in {"returned", "SystemExit"}) =>
        /\ process.state = "exited"
        /\ exit_status.set
        /\ process.code = exit_status.code
        /\ main_outcome.kind = "SystemExit" => process.code = main_outcome.code
        /\ main_outcome.kind = "returned" => process.code = 0

\* C4 witness: main called sys.exit with the largest code and the process exited
C4_Witness ==
    /\ process.state = "exited"
    /\ main_outcome = [kind |-> "SystemExit", code |-> MaxCode]

\* the position of the first occurrence of e in the history of steps, 0 if none
Position(e) ==
    IF e \in Range(events)
    THEN CHOOSE i \in 1..Len(events) : events[i] = e /\ \A j \in 1..(i - 1) : events[j] # e
    ELSE 0

\* C5 as claimed: when main called sys.exit with a non-zero code, the policy has
\* been restored by the time the captured text is on sys.stderr
C5_RestoredBeforeEmission ==
    (CheckerFailed /\ "stderr" \in Range(events)) =>
        /\ "restore" \in Range(events)
        /\ Position("restore") < Position("stderr")

\* C5 amended: when main called sys.exit with a non-zero code, the captured text
\* is written to sys.stderr while the override is still installed and the policy
\* is restored after that; the steps are install, invoke, print to sys.stdout,
\* print to sys.stderr, restore, exit
C5_EmissionBeforeRestore ==
    CheckerFailed =>
        /\ "restore" \in Range(events) =>
              /\ "stderr" \in Range(events)
              /\ Position("stderr") < Position("restore")
        /\ ("stderr" \in Range(events) /\ ~("restore" \in Range(events))) =>
              OverrideInstalled /\ real_stderr = PrintLine(<<main_wrote>>)
        /\ Terminated =>
              events = <<"install", "invoke", "stdout", "stderr", "restore", "exit">>

\* C5 witness: the diagnostics of a failed check are on sys.stderr and the
\* override is still installed
C5_Witness ==
    /\ CheckerFailed
    /\ pc = "finally"
    /\ main_wrote # <<>>
    /\ real_stderr = PrintLine(<<main_wrote>>)
    /\ OverrideInstalled

\* the manifest entries as the run resolves them against its root
SomeEntryMissing ==
    \E i \in 1..Len(site_packages) : ~Exists(site_packages[i])

\* C6: in a run where some resolved manifest entry does not exist, the two site
\* functions are never replaced, main is never called, and the run can only end
\* in an AssertionError, with nothing but its traceback written
C6_MissingPathAbortsBeforeInstall ==
    SomeEntryMissing =>
        /\ PolicyIsOriginal
        /\ events = <<>>
        /\ main_outcome.kind = "none"
        /\ pc \in {"check_exists", "done"}
        /\ pc = "done" =>
              /\ process.state = "AssertionError"
              /\ real_stdout = <<>>
              /\ real_stderr = <<"Traceback", "AssertionError", NL>>
        /\ pc = "check_exists" => process.state = "running" /\ streams = <<<<>>, <<>>>>

\* C6 witness: the run aborted on a missing entry after an earlier entry passed
C6_Witness ==
    /\ process.state = "AssertionError"
    /\ checked >= 1
    /\ ~Exists(site_packages[checked + 1])

\* C7: in a run whose manifest cannot be read, the override is never installed
\* and main is never called; the run ends by exiting with code 1 after one
\* attempt to read, with a line on sys.stdout that contains the manifest path
C7_UnreadableManifestExitsOne ==
    (argv_external_deps.given /\ ~manifest_file.readable) =>
        /\ PolicyIsOriginal
        /\ ~("install" \in Range(events)) /\ ~("invoke" \in Range(events))
        /\ pc \in {"parse_args", "runfiles_root", "read_manifest", "done"}
        /\ pc = "done" =>
              /\ process = Exited(1)
              /\ events = <<"exit">>
              /\ Contains(real_stdout, argv_external_deps.value)
              /\ real_stdout[Len(real_stdout)] = NL
              /\ real_stderr = <<>>

\* C7 witness: the run with an unreadable manifest has exited
C7_Witness ==
    /\ argv_external_deps.given
    /\ ~manifest_file.readable
    /\ process.state = "exited"
    /\ real_stdout # <<>>

\* the manifest entries, from the file content
ManifestEntries == Split(manifest_file.content, NL)

\* C8: while the override is installed, site.getsitepackages() returns the
\* manifest entries, each joined to the root, in manifest order, followed by
\* what the original function returns; nothing dropped, merged or reordered
C8_PrimaryIsManifestThenOriginal ==
    OverrideInstalled =>
        LET entries == ManifestEntries
            result == PrimaryResult
        IN  /\ Len(result) = Len(entries) + Len(site_results.primary)
            /\ \A i \in 1..Len(entries) : result[i] = Join(runfiles_root, entries[i])
            /\ \A i \in 1..Len(site_results.primary) :
                  result[Len(entries) + i] = site_results.primary[i]

\* C8 witness: an override over two entries that resolve to different paths, one
\* of them also returned by the original function
C8_Witness ==
    /\ OverrideInstalled
    /\ Len(ManifestEntries) = 2
    /\ site_packages[1] # site_packages[2]
    /\ site_results.primary # <<>>
    /\ site_packages[1] = site_results.primary[1]

\* C9: while the override is installed, and during the whole call of main,
\* site.getusersitepackages() returns the empty string
C9_SecondaryEmptyWhileInstalled ==
    /\ OverrideInstalled => SecondaryResult = <<>>
    /\ pc = "in_main" => OverrideInstalled /\ SecondaryResult = <<>>
    /\ OverrideInstalled <=> site_getusersitepackages.fn = "__bazel_override_getusersitepackages__"

\* C9 witness: main is running and the original function would return a directory
C9_Witness ==
    /\ pc = "in_main"
    /\ site_results.user # <<>>
    /\ CallGetusersitepackages(original_getusersitepackages) # <<>>

\* a step that executes restore_original_sitepackages, from the script or not
RestoreStep ==
    \/ extra_restores' = extra_restores + 1
    \/ events' = Append(events, "restore")

\* C10: every execution of restore_original_sitepackages leaves both site
\* functions equal to the ones captured at import, returning what those return;
\* executed where the policy is already the original one (a second call, or a
\* call with no override installed) it changes neither function
C10_RestoreIdempotent ==
    [][RestoreStep =>
          /\ PolicyIsOriginal'
          /\ PolicyIsOriginal => policy' = policy]_vars

\* C10 witness: restore_original_sitepackages has been executed a second time
\* after the script's own call undid an installed override
C10_Witness ==
    /\ extra_restores = 1
    /\ events = <<"install", "invoke", "restore">>
    /\ PolicyIsOriginal
    /\ site_results.user # <<>>

\* C11 as claimed: when main called sys.exit with a non-zero code, the text on
\* sys.stdout is the captured text, the same that is on sys.stderr
C11_StdoutRepeatsDiagnostics ==
    (Terminated /\ CheckerFailed) =>
        /\ real_stdout = PrintLine(<<main_wrote>>)
        /\ real_stdout = real_stderr

\* C11 amended: when main called sys.exit with a non-zero code, the captured
\* text is on sys.stderr only; the StringIO printed to sys.stdout was never
\* given to main, so sys.stdout holds one empty line whatever mypy wrote
C11_StdoutGetsEmptyLine ==
    (Terminated /\ CheckerFailed) =>
        /\ sio.stdout = <<>>
        /\ real_stdout = <<NL>>
        /\ real_stderr = PrintLine(<<main_wrote>>)
        /\ \A t \in Range(main_wrote) : ~(t \in Range(real_stdout))

\* C11 witness: a failed check whose report went to mypy's stdout stream has
\* exited
C11_Witness ==
    /\ process.state = "exited"
    /\ CheckerFailed
    /\ main_wrote = <<"report">>
    /\ real_stdout = <<NL>>

\* the installations and restorations among the steps taken, in order
PolicySteps ==
    SelectSeq(events, LAMBDA e : e \in {"install", "install_again", "restore"})

\* monkey_patch_sitepackages ran twice with no restore in between, then
\* restore_original_sitepackages ran
ReinstalledThenRestored ==
    PolicySteps \in {<<"install", "install_again", "restore">>,
                     <<"install_again", "install", "restore">>}

\* C12 as claimed: after two installations with no restore in between, a
\* restore does not bring back the functions the process started with
C12_ReinstallCorruptsOriginals ==
    ReinstalledThenRestored => ~PolicyIsOriginal

\* C12 amended: no step, a second installation included, assigns the two saved
\* originals, which stay the functions found at import; every restore, also one
\* that follows two installations, brings back those functions and their results
C12_ReinstallKeepsOriginals ==
    [][/\ originals' = <<SiteGetsitepackages, SiteGetusersitepackages>>
       /\ events' = Append(events, "restore") => PolicyIsOriginal']_vars

\* C12 witness: the script installed its override, another caller installed one
\* over it, and the script's restore brought back the original functions
C12_Witness ==
    /\ PolicySteps = <<"install", "install_again", "restore">>
    /\ PolicyIsOriginal
    /\ originals = <<SiteGetsitepackages, SiteGetusersitepackages>>

\* C13: the script installs at most once and restores at most once, a restore
\* only after the install; the override is installed exactly between the two;
\* a run that installed and has terminated, whether main returned, called
\* sys.exit or raised, has restored exactly once
C13_InstallRestorePaired ==
    /\ Count("install") <= 1
    /\ Count("restore") <= 1
    /\ "restore" \in Range(events) =>
          "install" \in Range(events) /\ Position("install") < Position("restore")
    /\ OverrideInstalled <=>
          ("install" \in Range(events) /\ ~("restore" \in Range(events)))
    /\ (Terminated /\ "install" \in Range(events)) =>
          /\ Count("restore") = 1
          /\ main_outcome.kind \in {"returned", "SystemExit", "raised"}

\* C13 witness: main returned and the run ended after one install and one restore
C13_Witness ==
    /\ main_outcome.kind = "returned"
    /\ events = <<"install", "invoke", "restore", "exit">>
    /\ Terminated

\* C14: main is called at most once; while it runs the manifest has been read
\* and split, every resolved entry exists and has been checked, the override is
\* installed, both of its streams are the same StringIO, which holds all it
\* wrote, and sys.stdout and sys.stderr are empty
C14_MainRunsOnceInsideOverride ==
    /\ Count("invoke") <= 1
    /\ pc = "in_main" =>
          /\ Count("invoke") = 1
          /\ manifest_file.readable
          /\ external_deps_manifest = Split(manifest_file.content, NL)
          /\ Len(site_packages) = Len(external_deps_manifest)
          /\ checked = Len(site_packages)
          /\ \A i \in 1..Len(site_packages) : Exists(site_packages[i])
          /\ OverrideInstalled
          /\ site_getsitepackages.site_packages = site_packages
          /\ MainStreamArg("stdout") = MainStreamArg("stderr")
          /\ sio[MainStreamArg("stderr")] = main_wrote
          /\ real_stdout = <<>>
          /\ real_stderr = <<>>
    /\ "invoke" \in Range(events) =>
          "install" \in Range(events) /\ Position("install") < Position("invoke")

\* C14 witness: main is running over a two-entry manifest and has written as many
\* tokens as the bound allows
C14_Witness ==
    /\ pc = "in_main"
    /\ Len(site_packages) = 2
    /\ Len(main_wrote) = MaxDiag
    /\ real_stdout = <<>>
    /\ real_stderr = <<>>

\* the positions of the empty lines of the manifest
BlankEntries == {i \in 1..Len(ManifestEntries) : ManifestEntries[i] = <<>>}

\* C15: once the entries are resolved there is one resolved path per manifest
\* line, empty lines included; an empty line resolves to the root followed by a
\* separator, which names the root directory and exists exactly if the root
\* does; a run gets past the asserts only if it does; the override returns that
\* path at the position of the line; a manifest of empty lines only over an
\* existing root ends without AssertionError, the override having been installed
C15_BlankLinesResolveToRoot ==
    site_packages # <<>> =>
        LET entries == ManifestEntries
            blank == {i \in 1..Len(entries) : entries[i] = <<>>}
            rootExists == Exists(runfiles_root)
        IN  /\ Len(site_packages) = Len(entries)
            /\ \A i \in blank :
                  /\ site_packages[i] = runfiles_root \o <<SEP>>
                  /\ Components(site_packages[i]) = Components(runfiles_root)
                  /\ Exists(site_packages[i]) <=> rootExists
                  /\ "install" \in Range(events) => rootExists
                  /\ OverrideInstalled => PrimaryResult[i] = site_packages[i]
                  /\ (~rootExists /\ Terminated) => process.state = "AssertionError"
            /\ (blank = 1..Len(entries) /\ rootExists) =>
                  /\ process.state # "AssertionError"
                  /\ Terminated => "install" \in Range(events)

\* C15 witness: the override is installed over a manifest of two empty lines
C15_Witness ==
    /\ OverrideInstalled
    /\ Len(ManifestEntries) = 2
    /\ BlankEntries = {1, 2}
    /\ PrimaryResult[2] = runfiles_root \o <<SEP>>

\* the script has passed the statement that sets runfiles_root
RootChosen == argv_external_deps.given /\ ~(pc \in {"parse_args", "runfiles_root"})

\* C16 as claimed: the root is the value of TEST_SRCDIR whenever the variable is
\* present, the directory external under the working directory only when it is
\* absent, and every resolved path starts with the root
C16_RootIsVariableWhenPresent ==
    RootChosen =>
        /\ environ_TEST_SRCDIR.present => runfiles_root = environ_TEST_SRCDIR.value
        /\ ~environ_TEST_SRCDIR.present => runfiles_root = <<SEP, "w", SEP, "external">>
        /\ \A i \in 1..Len(site_packages) : IsPrefix(runfiles_root, site_packages[i])

\* C16 amended: in every state after the choice the root is the value of
\* TEST_SRCDIR if the variable is present and not empty, and the directory
\* external under the working directory if it is absent or empty; every
\* resolved path is the root, a separator and the manifest entry, except that
\* an entry that begins with a separator is kept as it is, without the root
C16_RootIsVariableWhenNotEmpty ==
    RootChosen =>
        /\ (environ_TEST_SRCDIR.present /\ environ_TEST_SRCDIR.value # <<>>) =>
              runfiles_root = environ_TEST_SRCDIR.value
        /\ (~environ_TEST_SRCDIR.present \/ environ_TEST_SRCDIR.value = <<>>) =>
              runfiles_root = <<SEP, "w", SEP, "external">>
        /\ runfiles_root # <<>>
        /\ site_packages # <<>> =>
              LET entries == ManifestEntries
              IN  \A i \in 1..Len(site_packages) :
                     IF entries[i] # <<>> /\ Head(entries[i]) = SEP
                     THEN site_packages[i] = entries[i]
                     ELSE site_packages[i] = runfiles_root \o <<SEP>> \o entries[i]

\* C16 witness: TEST_SRCDIR is set to the empty string and the override is
\* installed over an entry resolved under the working directory
C16_Witness ==
    /\ environ_TEST_SRCDIR = [present |-> TRUE, value |-> <<>>]
    /\ OverrideInstalled
    /\ site_packages[1] = <<SEP, "w", SEP, "external", SEP, "a">>

\* C17: once main has raised something other than SystemExit, no status code is
\* ever recorded, sys.stdout stays empty, nothing mypy wrote reaches sys.stderr,
\* neither print nor sys.exit is executed; the exception stays in flight through
\* the finally clause, and the run ends aborted by it, with the traceback alone
\* on sys.stderr, after the restore brought back the original functions
C17_UnexpectedErrorPropagates ==
    main_outcome.kind = "raised" =>
        /\ ~exit_status.set
        /\ real_stdout = <<>>
        /\ \A t \in Range(main_wrote) : ~(t \in Range(real_stderr))
        /\ Range(events) \cap {"stdout", "stderr", "exit"} = {}
        /\ pc \in {"finally", "done"}
        /\ pc = "finally" =>
              /\ process.state = "running"
              /\ pending.exc = "Exception"
              /\ real_stderr = <<>>
        /\ pc = "done" =>
              /\ process = Aborted("Exception")
              /\ events = <<"install", "invoke", "restore">>
              /\ PolicyIsOriginal
              /\ real_stderr = <<"Traceback", "Exception", NL>>

\* C17 witness: main wrote a diagnostic and then raised; the process has aborted
C17_Witness ==
    /\ main_outcome.kind = "raised"
    /\ main_wrote # <<>>
    /\ sio.stderr = main_wrote
    /\ pc = "done"

====
